---- MODULE Spec2Model ----
(***************************************************************************)
(* A model of the backtesting system: the per-instrument Execution         *)
(* Simulator (BacktestEngine.run with its CustomStrategy, driven by the    *)
(* backtesting library's Backtest.run loop), the batch loop of main, and   *)
(* the strategies' generate_signals.                                       *)
(*                                                                         *)
(* Money is kept in thousandths of a currency unit so that a commission    *)
(* rate given per mille (COMMISSION = 0.001 is 1) stays an integer.        *)
(***************************************************************************)
EXTENDS Integers, Sequences, FiniteSets, TLC

VARIABLES
    \* ---- Execution Simulator (src/backtester.py) ----
    sim_pc,         \* "run" while Backtest.run loops, then "done" or "oom"
    sim_cfg,        \* [cash, commission, nbars]: Backtest(...) arguments and len(data)
    bar,            \* index i of the bar Backtest.run is at
    bar_open,       \* data.Open[i]
    closes,         \* data.Close[0..i]
    broker,         \* [cash, units, entry]: _Broker._cash and its one open trade
    orders,         \* _Broker.orders, the queue of pending orders
    signal_index,   \* CustomStrategy.signal_index
    current_signal, \* the signal read by the last CustomStrategy.next
    acted,          \* the last step ran CustomStrategy.next past its guard
    units_before,   \* position size seen by the last CustomStrategy.next
    issued,         \* the orders the last CustomStrategy.next placed
    last_fill,      \* the last fill the broker made, or NoFill
    rejected,       \* the last broker.next() dropped an order it could not afford
    \* ---- one strategy instance and the generate_signals calls made on it ----
    gen_strategy,   \* [name, params]: the strategy instance
    gen_data,       \* the Bar Series of the instrument under test
    gen_out,        \* result of the first call, on gen_data
    gen_k,          \* length of the truncated series of the call below
    gen_trunc,      \* result of a call on the first gen_k bars of gen_data
    gen_again,      \* result of a later call on gen_data
    gen_between,    \* another instrument's series was processed since gen_out
    frame,          \* the local variables of generate_signals as its last call left them
    \* ---- the batch loop of main (src/main.py) ----
    main_pc,        \* "loaded", "loop", "done", "returned" (no data) or "aborted"
    main_strategy,  \* the strategy instance main builds
    stock_data,     \* the loaded instruments, in dict order: [symbol, data]
    main_i,         \* position of the loop in stock_data
    results,        \* the results list
    summary_stats,  \* [total_stocks, successful_tests, failed_tests]
    \* ---- the row loop of one generate_signals call, bar by bar ----
    loop_name,      \* which strategy's loop
    loop_i,         \* rows processed so far
    loop_price,     \* Close of the last processed row
    loop_l,         \* the locals now (what the tracking columns record)
    loop_signal,    \* the Signal written for the last processed row
    loop_exc,       \* the exception that ended the loop, "" if none
    \* ---- the strategy comparison (old code/compare_strategies.py) ----
    cmp_pc,           \* "run" while run_comparison loops, then "done"
    strategy_results, \* the records of one strategy, one per instrument
    metrics           \* calculate_strategy_metrics' entry for that strategy

simVars == <<sim_pc, sim_cfg, bar, bar_open, closes, broker, orders,
             signal_index, current_signal, acted, units_before, issued, last_fill,
             rejected>>

genVars == <<gen_strategy, gen_data, gen_out, gen_k, gen_trunc, gen_again,
             gen_between, frame>>

mainVars == <<main_pc, main_strategy, stock_data, main_i, results, summary_stats>>

loopVars ==
    <<loop_name, loop_i, loop_price, loop_l, loop_signal, loop_exc>>

cmpVars == <<cmp_pc, strategy_results, metrics>>

vars == <<simVars, genVars, mainVars, loopVars, cmpVars>>

----------------------------------------------------------------------------
\* Bounds of the model

\* longest simulated bar series
MaxBars == 4

\* config.py: INITIAL_CASH = 100000, COMMISSION = 0.001 (1 per mille)
INITIAL_CASH == 100000
COMMISSION == 1

\* longest Bar Series handed to generate_signals
MaxSeries == 4

\* most instruments in one batch
MaxStocks == 3

\* most rows a loop is followed for from where it starts
MaxRows == 5

PriceSet == {90, 100, 120}
SignalSet == {-2, -1, 0, 1}
CashSet == {100, 1000, INITIAL_CASH}
CommissionSet == {0, COMMISSION}

\* closes of the series handed to generate_signals
GenPrices == {80, 100, 120}

----------------------------------------------------------------------------
\* Arithmetic helpers

Abs(x) == IF x < 0 THEN -x ELSE x

Max(a, b) == IF a >= b THEN a ELSE b

Min(a, b) == IF a <= b THEN a ELSE b

Milli(x) == x * 1000

----------------------------------------------------------------------------
\* The broker of the backtesting library, as BacktestEngine.run configures it:
\* Backtest(data, CustomStrategy, cash=INITIAL_CASH, commission=COMMISSION,
\* exclusive_orders=True); margin, trade_on_close and hedging keep their
\* defaults (1.0, False, False), so a market order placed in next() of bar i
\* is filled at the open of bar i+1.

NoFill == [bar |-> -1, price |-> 0, size |-> 0, sig |-> -1]

\* Backtest(...) is given no margin argument: leverage 1/margin = 1
LeverageTwo == 1 + 1
Leverage == 1

\* exclusive_orders=True in the Backtest(...) call
ExclusiveOrders == TRUE

\* commission = rate x notional of a fill, charged on each leg
CommissionOf(size, price, c) == Abs(size) * price * c

Equity(b, close) == b.cash + Milli(b.units * (close - b.entry))

MarginUsed(b, close) == Milli(Abs(b.units) * close) \div Leverage

MarginAvailable(b, close) == Max(0, Equity(b, close) - MarginUsed(b, close))

\* The free cash of the spec's Position State: what the broker holds beyond
\* the cost of the units it owns.
CashBalance(b) == b.cash - Milli(Abs(b.units) * b.entry)

\* _Broker._reduce_trade / _close_trade: n units (signed, against the trade)
\* leave the trade at `price`; the realised P&L and the exit commission go to cash.
ReduceTrade(b, n, price, c) ==
    [cash  |-> b.cash + Milli((-n) * (price - b.entry)) - CommissionOf(n, price, c),
     units |-> b.units + n,
     entry |-> IF b.units + n = 0 THEN 0 ELSE b.entry]

\* _Broker._open_trade: the entry commission is debited at once.
OpenTrade(b, need, price, c) ==
    [cash  |-> b.cash - CommissionOf(need, price, c),
     units |-> b.units + need,
     entry |-> price]

\* Size in units of an order for the whole equity (Strategy.buy() with its
\* default size 1 - epsilon): floor(margin * leverage * (1 - eps) / price incl.
\* commission). The (1 - eps) factor makes an exact multiple buy one unit less.
FullEquitySize(b, price, close, c) ==
    LET avail == MarginAvailable(b, close) * Leverage
        adj   == price * (1000 + c)
    IN  IF avail = 0 THEN 0 ELSE (avail - 1) \div adj

\* _Broker._process_orders for one order; returns [b, fill, rej]: the broker
\* after it, the fill made (or NoFill) and whether the order was dropped for
\* lack of cash.
ProcessOrder(b, o, price, close, c, i) ==
    IF o.kind = "close"
    THEN \* trade.close() order: reduces the trade it belongs to, if still open
         IF b.units = 0
         THEN [b |-> b, fill |-> NoFill, rej |-> FALSE]
         ELSE LET n == IF o.size < 0 THEN -Min(Abs(b.units), -o.size)
                                     ELSE Min(Abs(b.units), o.size)
              IN  [b |-> ReduceTrade(b, n, price, c),
                   fill |-> [bar |-> i, price |-> price, size |-> n, sig |-> o.sig],
                   rej |-> FALSE]
    ELSE \* stand-alone market order for the full equity
         LET dir   == IF o.kind = "buy" THEN 1 ELSE -1
             adj   == price * (1000 + c)
             size  == FullEquitySize(b, price, close, c)
             need0 == dir * size
             opp   == b.units * need0 < 0
             b1    == IF ~opp THEN b
                      ELSE IF Abs(need0) >= Abs(b.units)
                           THEN ReduceTrade(b, -b.units, price, c)
                           ELSE ReduceTrade(b, need0, price, c)
             need  == IF ~opp THEN need0
                      ELSE IF Abs(need0) >= Abs(b.units)
                           THEN need0 + b.units
                           ELSE 0
         IN  IF size = 0
             THEN [b |-> b, fill |-> NoFill, rej |-> TRUE]
             ELSE IF Abs(need) * adj > MarginAvailable(b1, close) * Leverage
                  THEN [b |-> b1, fill |-> NoFill, rej |-> TRUE]
                  ELSE IF need # 0
                       THEN [b |-> OpenTrade(b1, need, price, c),
                             fill |-> [bar |-> i, price |-> price,
                                       size |-> need0, sig |-> o.sig],
                             rej |-> FALSE]
                       ELSE [b |-> b1,
                             fill |-> [bar |-> i, price |-> price,
                                       size |-> need0, sig |-> o.sig],
                             rej |-> FALSE]

\* _Broker._process_orders: every queued order, in queue order; the queue is
\* empty afterwards (market orders are filled or dropped). `acc` is the
\* result so far, [b, fill, rej]; the last fill made is kept.
RECURSIVE ProcessOrders(_, _, _, _, _, _)
ProcessOrders(acc, q, price, close, c, i) ==
    IF q = <<>>
    THEN acc
    ELSE LET r == ProcessOrder(acc.b, Head(q), price, close, c, i)
         IN  ProcessOrders([b    |-> r.b,
                            fill |-> IF r.fill = NoFill THEN acc.fill ELSE r.fill,
                            rej  |-> acc.rej \/ r.rej],
                           Tail(q), price, close, c, i)

\* _Broker.next(): the queued orders meet the bar (open `price`, close `close`)
BrokerNext(b, q, price, close, c, i) ==
    ProcessOrders([b |-> b, fill |-> NoFill, rej |-> FALSE], q, price, close, c, i)

----------------------------------------------------------------------------
\* CustomStrategy.next (src/backtester.py lines 37-46)

\* Position.close(): one closing order per open trade, for its whole size
PositionClose(units, sig) ==
    IF units = 0 THEN <<>>
    ELSE <<[kind |-> "close", size |-> -units, sig |-> sig]>>

\* Strategy.buy() -> _Broker.new_order: with exclusive orders every open trade
\* is closed first, then the new order is queued.
StrategyBuy(units, sig) ==
    (IF ExclusiveOrders THEN PositionClose(units, sig) ELSE <<>>)
        \o <<[kind |-> "buy", size |-> 0, sig |-> sig]>>

\* Strategy.sell(): the same for a short order
StrategySell(units, sig) ==
    (IF ExclusiveOrders THEN PositionClose(units, sig) ELSE <<>>)
        \o <<[kind |-> "sell", size |-> 0, sig |-> sig]>>

\* line 41: current_signal == 1 and not self.position
BuyGuardAnyPosition(signal, units) == signal = 1
BuyGuard(signal, units) == signal = 1 /\ units = 0

\* line 43: current_signal == -1 and self.position
SellGuard(signal, units) == signal = -1 /\ units # 0

\* line 44: self.position.close()
SellCallShort(units, sig) == StrategySell(units, sig)
SellCall(units, sig) == PositionClose(units, sig)

\* line 46: self.signal_index += 1
SignalIndexSkipsOne(index) == index + 2
SignalIndexAfter(index) == index + 1

\* lines 41-44: the orders one call of next places
NextOrders(signal, units, sig) ==
    IF BuyGuard(signal, units) THEN StrategyBuy(units, sig)
    ELSE IF SellGuard(signal, units) THEN SellCall(units, sig)
    ELSE <<>>

----------------------------------------------------------------------------
\* Exact rational numbers [n, d] with d > 0, in lowest terms, for the prices
\* and averages the strategies compute; d = 0 is NaN (an indicator that is
\* not defined yet), and every comparison with NaN is false, as in numpy.

RECURSIVE GCD(_, _)
GCD(a, b) == IF b = 0 THEN a ELSE GCD(b, a % b)

Rat(n, d) ==
    LET g == GCD(Abs(n), d)
    IN  IF n = 0 THEN [n |-> 0, d |-> 1] ELSE [n |-> n \div g, d |-> d \div g]

Zero == [n |-> 0, d |-> 1]

NaN == [n |-> 0, d |-> 0]

FromInt(x) == [n |-> x, d |-> 1]

IsNaN(a) == a.d = 0

RatLT(a, b) == ~IsNaN(a) /\ ~IsNaN(b) /\ a.n * b.d < b.n * a.d

RatLEStrict(a, b) == RatLT(a, b)
RatLE(a, b) == ~IsNaN(a) /\ ~IsNaN(b) /\ a.n * b.d <= b.n * a.d

RECURSIVE SumSeq(_, _, _)
SumSeq(s, lo, hi) == IF lo > hi THEN 0 ELSE s[lo] + SumSeq(s, lo + 1, hi)

----------------------------------------------------------------------------
\* Bar Series and the results of generate_signals.
\* A data frame is [cols, Close]: which columns it has ("all" of OHLCV, only
\* "close", or "none" of them) and its Close column. generate_signals gives
\*   [kind |-> "signals", Signal, frame]  the frame with its Signal column,
\*   [kind |-> "unchanged", ...]          the input frame, without a Signal column,
\*   [kind |-> "raise", exc, ...]         an exception leaves the call.
\* `frame` holds the call's local variables as they are when it ends.

Signals(sig, l) == [kind |-> "signals", Signal |-> sig, exc |-> "", frame |-> l]

Unchanged(l) == [kind |-> "unchanged", Signal |-> <<>>, exc |-> "", frame |-> l]

Raise(e, l) == [kind |-> "raise", Signal |-> <<>>, exc |-> e, frame |-> l]

\* BaseStrategy.validate_data: all of Open, High, Low, Close, Volume present
validate_data(data) == data.cols = "all"

\* PercentageChangeStrategy.validate_data: only Close is required
validate_close(data) == data.cols \in {"all", "close"}

\* ---- BuyAndHoldStrategy.generate_signals (old code/strategies/buy_hold_strategy.py)

\* data['Signal'] = 0; data.iloc[0, Signal] = 1
BuyHoldColumnLastRow(n) == [i \in 1..n |-> IF i = n THEN 1 ELSE 0]
BuyHoldColumn(n) == [i \in 1..n |-> IF i = 1 THEN 1 ELSE 0]

BuyAndHold(data, l) ==
    IF ~validate_data(data) THEN Raise("ValueError", l)
    ELSE IF Len(data.Close) = 0 THEN Raise("IndexError", l)
    ELSE Signals(BuyHoldColumn(Len(data.Close)), l)

\* ---- PriceActionStrategy.generate_signals (strategies/price_action_strategy.py)

\* lines 24-26: position = 0, avg_buy_price = 0.0, last_buy_price = 0.0
EntryLocalsKept == frame
EntryLocals == [position |-> 0, avg |-> Zero, last |-> Zero]

\* avg_buy_price = ((avg_buy_price * (position - 1)) + current_price) / position,
\* with `position` already incremented
AverageInOverNext(avg, position, price) ==
    Rat(avg.n * (position - 1) + price * avg.d, avg.d * (position + 1))
AverageIn(avg, position, price) ==
    Rat(avg.n * (position - 1) + price * avg.d, avg.d * position)

\* What one pass through a loop body gives: the locals after it, the value
\* written to the Signal column, and the exception that left it ("" if none)
Row(l, signal) == [l |-> l, signal |-> signal, exc |-> ""]

RowRaises(l, e) == [l |-> l, signal |-> 0, exc |-> e]

\* lines 33-36 (old code: lines 36-39): the locals after the buy from
\* position 0: position = 1, avg_buy_price = last_buy_price = current_price
FirstBuyKeepsPrices(price) == [position |-> 1, avg |-> Zero, last |-> Zero]
FirstBuy(price) == [position |-> 1, avg |-> FromInt(price), last |-> FromInt(price)]

\* lines 30-51, one row
PriceActionRow(l, price) ==
    IF l.position = 0
    THEN Row(FirstBuy(price), 1)
    ELSE IF 10 * price * l.last.d <= 9 * l.last.n
         THEN \* current_price <= last_buy_price * 0.9
              Row([position |-> l.position + 1,
                   avg |-> AverageIn(l.avg, l.position + 1, price),
                   last |-> FromInt(price)], 1)
         ELSE IF 10 * price * l.avg.d >= 12 * l.avg.n /\ l.position > 0
              THEN \* current_price >= avg_buy_price * 1.2
                   Row([position |-> 0, avg |-> Zero, last |-> Zero], -1)
              ELSE Row(l, 0)

\* ---- PriceActionStrategy.generate_signals (old code/strategies/price_action_strategy.py)

\* lines 27-29
max_position == 10

\* int(profit / profit_threshold) for the profit num/den, as float64 computes
\* it: 0.1 is a little more than 1/10, and a profit of exactly k/10 divided by
\* it falls just below k for the k of LowTenths (0.3 / 0.1 is
\* 2.9999999999999996), where int() then gives k - 1. Profits here stay
\* below 30/10.
LowTenths == {3, 6, 7, 12, 14, 19, 23, 24, 28, 29}

ProfitMultiples(num, den) ==
    LET q == (10 * num) \div den
    IN  IF (10 * num) % den = 0 /\ q \in LowTenths THEN q - 1 ELSE q

\* lines 42 and 48: price_drop = (last_buy_price - current_price) /
\* last_buy_price, and price_drop >= drop_threshold (nan and -inf when the
\* last buy price is 0.0: false)
DropFromAverage(l, price) ==
    l.avg.n > 0 /\ 20 * (l.avg.n - price * l.avg.d) >= l.avg.n
DropFromLast(l, price) ==
    l.last.n > 0 /\ 20 * (l.last.n - price * l.last.d) >= l.last.n

\* lines 65-70: position -= portions_to_sell, and the prices are reset if
\* everything was sold
AfterSellKeepsPrices(l, portions) == [l EXCEPT !.position = l.position - portions]
AfterSell(l, portions) ==
    IF l.position - portions = 0
    THEN [position |-> 0, avg |-> Zero, last |-> Zero]
    ELSE [l EXCEPT !.position = l.position - portions]

\* lines 33-70, one row, drop_threshold = 0.05 and profit_threshold = 0.1:
\* price_drop = (last - price) / last, profit = (price - avg) / avg.
\* The closes are numpy floats: a division by 0.0 gives inf or nan, never an
\* exception, every comparison with nan is false, and int(inf) raises
\* OverflowError. The average of the buy prices is 0 only if every buy price
\* was 0, and then the last buy price is 0 too.
OldPriceActionRow(l, price) ==
    IF l.position = 0
    THEN Row(FirstBuy(price), 1)
    ELSE LET drop_ok   == DropFromLast(l, price)
             profit_inf == l.avg.n = 0 /\ price > 0
             profit_ok == /\ l.avg.n > 0
                          /\ 10 * (price * l.avg.d - l.avg.n) >= l.avg.n
             multiples == ProfitMultiples(price * l.avg.d - l.avg.n, l.avg.n)
             portions  == Min(l.position, multiples)
         IN  IF drop_ok /\ l.position < max_position
             THEN Row([position |-> l.position + 1,
                       avg |-> AverageIn(l.avg, l.position + 1, price),
                       last |-> FromInt(price)], 1)
             ELSE IF profit_inf /\ l.position > 0
                  THEN RowRaises(l, "OverflowError")
                  ELSE IF profit_ok /\ l.position > 0 /\ portions > 0
                       THEN Row(AfterSell(l, portions), -portions)
                       ELSE Row(l, 0)

\* ---- PercentageChangeStrategy.generate_signals (old code/strategies/percentage_change_strategy.py)

\* lines 47-48: avg_buy_price = ((shares_owned * avg_buy_price) +
\* (shares_to_buy * current_price)) / new_shares
WeightedAverageOfTwo(shares_owned, avg, shares_to_buy, price) ==
    Rat(avg.n + price * avg.d, 2 * avg.d)
WeightedAverage(shares_owned, avg, shares_to_buy, price) ==
    Rat(shares_owned * avg.n + shares_to_buy * price * avg.d,
        avg.d * (shares_owned + shares_to_buy))

\* line 60: int(min(shares_owned, rise_pct * shares_owned)), for prev > 0
SharesToSellUncapped(shares_owned, price, prev) ==
    ((price - prev) * shares_owned) \div prev
SharesToSell(shares_owned, price, prev) ==
    Min(shares_owned, ((price - prev) * shares_owned) \div prev)

\* lines 32-70, one row i >= 1 with its previous close; max_position = 100,
\* min_price_change = 0.01; l.position is shares_owned.
\* A previous close of 0.0 makes price_change_pct inf (price > 0) or nan
\* (price = 0); min(shares_owned, inf) is shares_owned.
PercentageChangeRow(l, price, prev) ==
    IF prev = 0
    THEN IF price > 0 /\ l.position > 0 /\ price * l.avg.d > l.avg.n
         THEN Row([l EXCEPT !.position = 0], -1)
         ELSE Row(l, 0)
    ELSE IF 100 * (prev - price) > prev
    THEN \* price_change_pct < -min_price_change
         LET shares_to_buy == (100 * (prev - price)) \div prev
             new_shares    == l.position + shares_to_buy
         IN  IF shares_to_buy > 0
             THEN Row([position |-> new_shares,
                       avg |-> WeightedAverage(l.position, l.avg, shares_to_buy, price),
                       last |-> l.last], 1)
             ELSE Row(l, 0)
    ELSE IF 100 * (price - prev) > prev /\ l.position > 0
         THEN LET shares_to_sell == SharesToSell(l.position, price, prev)
              IN  IF price * l.avg.d > l.avg.n /\ shares_to_sell > 0
                  THEN Row([l EXCEPT !.position = l.position - shares_to_sell], -1)
                  ELSE Row(l, 0)
         ELSE Row(l, 0)

\* The row loops: `for i in range(len(data))`, and for the percentage-change
\* strategy `for i in range(1, len(data))` (row 0 keeps Signal 0).
RowOf(name, l, close, i) ==
    IF name = "price_action" THEN PriceActionRow(l, close[i])
    ELSE IF name = "old_price_action" THEN OldPriceActionRow(l, close[i])
    ELSE IF i = 1 THEN Row(l, 0)
    ELSE PercentageChangeRow(l, close[i], close[i - 1])

\* An exception in the loop is caught by the strategy's own handler, which
\* returns the frame as it is: the Signal column keeps the rows written so
\* far and 0 in the others.
RECURSIVE RowLoop(_, _, _, _, _)
RowLoop(name, l, close, i, sig) ==
    IF i > Len(close)
    THEN Signals(sig, l)
    ELSE LET r == RowOf(name, l, close, i)
         IN  IF r.exc # ""
             THEN Signals(sig \o [k \in 1..(Len(close) - Len(sig)) |-> 0], l)
             ELSE RowLoop(name, r.l, close, i + 1, Append(sig, r.signal))

\* generate_signals of the three row-loop strategies: `entry` is what the
\* local variables hold when the loop starts
RowStrategy(name, data, entry) ==
    IF name = "percentage_change" /\ ~validate_close(data) THEN Unchanged(entry)
    ELSE IF name # "percentage_change" /\ ~validate_data(data) THEN Unchanged(entry)
    ELSE RowLoop(name, entry, data.Close, 1, <<>>)

\* ---- MovingAverageStrategy.generate_signals (strategies/moving_average_strategy.py)

\* talib.SMA(close, timeperiod=p): mean of the last p closes, NaN before p closes
SMA(close, p) ==
    [i \in 1..Len(close) |->
        IF i < p THEN NaN ELSE Rat(SumSeq(close, i - p + 1, i), p)]

Gain(close, i) == Max(0, close[i] - close[i - 1])

Loss(close, i) == Max(0, close[i - 1] - close[i])

\* Wilder's smoothed sums of talib.RSI, scaled by r^(i - r) to stay integers:
\* row r+1 (1-based) holds the plain sums of the first r changes
RECURSIVE Smoothed(_, _, _, _)
Smoothed(close, r, i, up) ==
    IF i = r + 1
    THEN SumSeq([j \in 1..(r + 1) |->
                    IF j = 1 THEN 0
                    ELSE IF up THEN Gain(close, j) ELSE Loss(close, j)], 1, r + 1)
    ELSE Smoothed(close, r, i - 1, up) * (r - 1)
         + (IF up THEN Gain(close, i) ELSE Loss(close, i)) * r ^ (i - r - 1)

\* talib.RSI(close, timeperiod=r): NaN for the first r rows, then
\* 100 * gain / (gain + loss), and 0 when both are 0
RSI(close, r) ==
    [i \in 1..Len(close) |->
        IF i <= r THEN NaN
        ELSE LET g == Smoothed(close, r, i, TRUE)
                 l == Smoothed(close, r, i, FALSE)
             IN  IF g + l = 0 THEN Zero ELSE Rat(100 * g, g + l)]

\* Series.shift(1): row i holds the value of row i-1, row 0 holds NaN
ShiftBack(col) == [i \in 1..Len(col) |-> IF i = Len(col) THEN NaN ELSE col[i + 1]]
Shift1(col) == [i \in 1..Len(col) |-> IF i = 1 THEN NaN ELSE col[i - 1]]

\* line 40: data['MA_Fast'].shift(1) <= data['MA_Slow'].shift(1), false when
\* either is NaN
PreviousAny(fast1, slow1) == TRUE
PreviousNotAbove(fast1, slow1) == RatLE(fast1, slow1)

\* lines 35-52: the Signal column from the indicator columns
MovingAverageColumn(close, params) ==
    LET fast  == SMA(close, params.MA_FAST)
        slow  == SMA(close, params.MA_SLOW)
        rsi   == RSI(close, params.RSI_PERIOD)
        fast1 == Shift1(fast)
        slow1 == Shift1(slow)
        buy(i)  == /\ RatLT(slow[i], fast[i])
                   /\ PreviousNotAbove(fast1[i], slow1[i])
                   /\ RatLT(rsi[i], FromInt(params.RSI_OVERSOLD))
        sell(i) == \/ (RatLT(fast[i], slow[i]) /\ RatLE(slow1[i], fast1[i]))
                   \/ RatLT(FromInt(params.RSI_OVERBOUGHT), rsi[i])
    IN  [i \in 1..Len(close) |-> IF sell(i) THEN -1 ELSE IF buy(i) THEN 1 ELSE 0]

\* talib refuses an empty (all-NaN) input; the strategy's own handler then
\* returns the frame as it is, which has no Signal column yet
MovingAverage(data, params, l) ==
    IF ~validate_data(data) THEN Unchanged(l)
    ELSE IF Len(data.Close) = 0 THEN Unchanged(l)
    ELSE Signals(MovingAverageColumn(data.Close, params), l)

\* ---- generate_signals, by strategy: strat is [name, params]
GenerateSignals(strat, data, entry) ==
    IF strat.name = "buy_hold" THEN BuyAndHold(data, entry)
    ELSE IF strat.name = "moving_average" THEN MovingAverage(data, strat.params, entry)
    ELSE RowStrategy(strat.name, data, entry)

----------------------------------------------------------------------------
\* One strategy instance, as main and compare_strategies build it once and
\* hand it to every instrument's BacktestEngine: calls of generate_signals.

\* config.py STRATEGY_PARAMS, with periods short enough for the series here;
\* the second set has the RSI filter not constraining
StrategyParams ==
    [MA_FAST |-> 2, MA_SLOW |-> 3, RSI_PERIOD |-> 2,
     RSI_OVERBOUGHT |-> 70, RSI_OVERSOLD |-> 30]

StrategyParamsNoFilter ==
    [MA_FAST |-> 2, MA_SLOW |-> 3, RSI_PERIOD |-> 2,
     RSI_OVERBOUGHT |-> 100, RSI_OVERSOLD |-> 101]

\* as in config.py, the RSI period is shorter than the slow period
StrategyParamsSlow ==
    [MA_FAST |-> 2, MA_SLOW |-> 4, RSI_PERIOD |-> 2,
     RSI_OVERBOUGHT |-> 70, RSI_OVERSOLD |-> 30]

StrategySet ==
    {[name |-> nm, params |-> StrategyParams] :
        nm \in {"buy_hold", "moving_average", "price_action",
                "old_price_action", "percentage_change"}}
    \cup {[name |-> "moving_average", params |-> StrategyParamsNoFilter]}
    \cup {[name |-> "moving_average", params |-> StrategyParamsSlow]}

SeriesUpTo(n) == UNION {[1..m -> GenPrices] : m \in 0..n}

\* series with one row after the first row at which the moving averages
\* can have crossed (row MA_SLOW + 1, counting from 1)
CrossoverInputs ==
    {[cols |-> "all", Close |-> c] : c \in [1..(StrategyParams.MA_SLOW + 2) -> GenPrices]}

GenInputs ==
    {[cols |-> "all", Close |-> c] : c \in SeriesUpTo(MaxSeries)}
    \cup {[cols |-> k, Close |-> <<100, 80>>] : k \in {"close", "none"}}
    \cup CrossoverInputs

\* the other instruments of the batch
OtherInputs ==
    {[cols |-> "all", Close |-> c] : c \in {<<100>>, <<120, 80>>, <<100, 80, 100>>}}

NoResult == [kind |-> "none", Signal |-> <<>>, exc |-> ""]

\* what the caller sees of a call
Seen(r) == [kind |-> r.kind, Signal |-> r.Signal, exc |-> r.exc]

Truncated(data, k) == [data EXCEPT !.Close = SubSeq(data.Close, 1, k)]

\* strategy.generate_signals(data): the locals start as the code sets them
Call(data) == GenerateSignals(gen_strategy, data, EntryLocals)

GenInit ==
    /\ gen_strategy \in StrategySet
    /\ gen_data \in GenInputs
    /\ gen_out = NoResult
    /\ gen_k = 0
    /\ gen_trunc = NoResult
    /\ gen_again = NoResult
    /\ gen_between = FALSE
    /\ frame = [position |-> 0, avg |-> Zero, last |-> Zero]

\* the first call, on the instrument under test
GenFirst ==
    /\ gen_out = NoResult
    /\ LET r == Call(gen_data)
       IN  gen_out' = Seen(r) /\ frame' = r.frame
    /\ UNCHANGED <<gen_strategy, gen_data, gen_k, gen_trunc, gen_again, gen_between>>
    /\ UNCHANGED <<simVars, mainVars, loopVars, cmpVars>>

\* a call on the first k bars of the same series
GenPrefix ==
    /\ gen_out # NoResult
    /\ gen_trunc = NoResult
    /\ \E k \in 1..Len(gen_data.Close) :
         LET r == Call(Truncated(gen_data, k))
         IN  gen_trunc' = Seen(r) /\ gen_k' = k /\ frame' = r.frame
    /\ UNCHANGED <<gen_strategy, gen_data, gen_out, gen_again, gen_between>>
    /\ UNCHANGED <<simVars, mainVars, loopVars, cmpVars>>

\* a call on another instrument's series
GenOther ==
    /\ gen_out # NoResult
    /\ gen_again = NoResult
    /\ ~gen_between
    /\ \E d \in OtherInputs :
         /\ d # gen_data
         /\ frame' = Call(d).frame
    /\ gen_between' = TRUE
    /\ UNCHANGED <<gen_strategy, gen_data, gen_out, gen_k, gen_trunc, gen_again>>
    /\ UNCHANGED <<simVars, mainVars, loopVars, cmpVars>>

\* a later call on the instrument under test
GenAgain ==
    /\ gen_out # NoResult
    /\ gen_again = NoResult
    /\ LET r == Call(gen_data)
       IN  gen_again' = Seen(r) /\ frame' = r.frame
    /\ UNCHANGED <<gen_strategy, gen_data, gen_out, gen_k, gen_trunc, gen_between>>
    /\ UNCHANGED <<simVars, mainVars, loopVars, cmpVars>>

GenNext == GenFirst \/ GenPrefix \/ GenOther \/ GenAgain

----------------------------------------------------------------------------
\* Backtest.run (the library's loop around CustomStrategy.next)

SimInit ==
    /\ sim_pc = "run"
    /\ sim_cfg \in [cash : CashSet, commission : CommissionSet, nbars : 1..MaxBars]
    /\ bar = 0
    /\ bar_open \in PriceSet
    /\ \E c0 \in PriceSet : closes = <<c0>>
    /\ broker = [cash |-> Milli(sim_cfg.cash), units |-> 0, entry |-> 0]
    /\ orders = <<>>
    /\ signal_index = 0
    /\ current_signal = 0
    /\ acted = FALSE
    /\ units_before = 0
    /\ issued = <<>>
    /\ last_fill = NoFill
    /\ rejected = FALSE

\* One iteration of `for i in range(start, len(data))`, start = 1 since
\* CustomStrategy declares no indicator: broker.next() fills the queued
\* orders at this bar's open and marks equity at its close, then
\* CustomStrategy.next() reads signals[signal_index].
SimBar ==
    /\ sim_pc = "run"
    /\ bar + 1 < sim_cfg.nbars
    /\ \E o \in PriceSet, cl \in PriceSet, s \in SignalSet :
         LET i  == bar + 1
             r  == BrokerNext(broker, orders, o, cl, sim_cfg.commission, i)
             b1 == r.b
         IN  /\ bar' = i
             /\ bar_open' = o
             /\ closes' = Append(closes, cl)
             /\ last_fill' = IF r.fill = NoFill THEN last_fill ELSE r.fill
             /\ rejected' = r.rej
             /\ IF Equity(b1, cl) <= 0
                THEN \* _OutOfMoneyError: trades closed at the close, cash zeroed
                     /\ sim_pc' = "oom"
                     /\ broker' = [cash |-> 0, units |-> 0, entry |-> 0]
                     /\ orders' = <<>>
                     /\ acted' = FALSE
                     /\ issued' = <<>>
                     /\ UNCHANGED <<signal_index, current_signal, units_before>>
                ELSE /\ sim_pc' = "run"
                     /\ broker' = b1
                     /\ IF signal_index < sim_cfg.nbars
                        THEN /\ current_signal' = s
                             /\ acted' = TRUE
                             /\ units_before' = b1.units
                             /\ issued' = NextOrders(s, b1.units, signal_index)
                             /\ orders' = issued'
                             /\ signal_index' = SignalIndexAfter(signal_index)
                        ELSE /\ acted' = FALSE
                             /\ issued' = <<>>
                             /\ orders' = <<>>
                             /\ UNCHANGED <<signal_index, current_signal, units_before>>
    /\ UNCHANGED sim_cfg
    /\ UNCHANGED <<genVars, mainVars, loopVars, cmpVars>>

\* The loop's else branch: the remaining trades are closed when the library
\* finalises trades (always before 0.6, finalize_trades=True since), and
\* broker.next() runs once more on the last bar for the orders still queued.
SimFinish ==
    /\ sim_pc = "run"
    /\ bar + 1 = sim_cfg.nbars
    /\ \E finalize \in BOOLEAN :
         LET q == (IF finalize THEN PositionClose(broker.units, -1) ELSE <<>>) \o orders
             r == IF 1 < sim_cfg.nbars
                  THEN BrokerNext(broker, q, bar_open, closes[Len(closes)],
                                  sim_cfg.commission, bar)
                  ELSE [b |-> broker, fill |-> NoFill, rej |-> FALSE]
         IN  /\ broker' = r.b
             /\ last_fill' = IF r.fill = NoFill THEN last_fill ELSE r.fill
             /\ rejected' = r.rej
    /\ sim_pc' = "done"
    /\ orders' = <<>>
    /\ acted' = FALSE
    /\ issued' = <<>>
    /\ UNCHANGED <<sim_cfg, bar, bar_open, closes, signal_index, current_signal,
                   units_before>>
    /\ UNCHANGED <<genVars, mainVars, loopVars, cmpVars>>

SimNext == SimBar \/ SimFinish

----------------------------------------------------------------------------
\* BacktestEngine.run as main sees it, and main's batch loop

SymbolList == <<"AAPL", "AMZN", "GOOG", "MSFT", "TSLA">>

\* Bar Series a data file can hold: a usable one, an empty one, one with only
\* a Close column, one with none of the required columns, and two with a
\* Close of 0 (their Open prices, at which orders fill, are positive)
BatchInputs ==
    {[cols |-> "all", Close |-> <<100, 80, 100>>],
     [cols |-> "all", Close |-> <<>>],
     [cols |-> "close", Close |-> <<100, 80>>],
     [cols |-> "none", Close |-> <<100, 80>>],
     [cols |-> "all", Close |-> <<100, 0, 50>>],
     [cols |-> "all", Close |-> <<0, 50>>]}

\* main.py line 79 builds a PriceActionStrategy; compare_strategies hands the
\* engine every strategy of the old code
BatchStrategies ==
    {[name |-> nm, params |-> StrategyParams] :
        nm \in {"price_action", "buy_hold", "old_price_action", "percentage_change"}}

ReturnSet == {-5, 20}

\* lines 25-57 of run: the exception its try block meets, or "none".
\* generate_signals may raise; a frame it returns without a Signal column
\* fails data_with_signals['Signal']; Backtest(...) refuses a frame that is
\* empty or lacks OHLC columns.
PipelineException(strat, data) ==
    LET r == GenerateSignals(strat, data, EntryLocals)
    IN  IF r.kind = "raise" THEN r.exc
        ELSE IF r.kind = "unchanged" THEN "KeyError"
        ELSE IF data.cols # "all" \/ Len(data.Close) = 0 THEN "ValueError"
        ELSE "none"

\* str(e)
ErrorText(exc) ==
    IF exc = "KeyError" THEN "'Signal'"
    ELSE IF exc = "IndexError" THEN "index out of bounds"
    ELSE "invalid data"

\* line 96: except Exception
CatchesValueErrorOnly(exc) == exc = "ValueError"
Catches(exc) == exc \in {"KeyError", "ValueError", "IndexError"}

\* lines 83-94: the success record; the statistics are the simulation's
SuccessRecord(symbol, ret) ==
    [symbol |-> symbol, return |-> ret, sharpe |-> 0, max_drawdown |-> 0,
     win_rate |-> 0, trades |-> 0, profit_factor |-> 0, avg_trade |-> 0,
     best_trade |-> 0, worst_trade |-> 0]

\* lines 98-101: the error record
ErrorRecord(symbol, exc) == [symbol |-> symbol, error |-> ErrorText(exc)]

\* BacktestEngine.run: what the call gives its caller
Run(strat, symbol, data, ret) ==
    LET exc == PipelineException(strat, data)
    IN  IF exc = "none"
        THEN [kind |-> "return", value |-> SuccessRecord(symbol, ret)]
        ELSE IF Catches(exc)
             THEN [kind |-> "return", value |-> ErrorRecord(symbol, exc)]
             ELSE [kind |-> "raise", value |-> ErrorRecord(symbol, exc)]

IsError(r) == "error" \in DOMAIN r

\* main.py line 98: results.append(result)
AppendSuccessOnly(rs, r) == IF IsError(r) THEN rs ELSE Append(rs, r)
AppendResult(rs, r) == Append(rs, r)

\* line 112: successful_results
Successful(rs) == {k \in DOMAIN rs : ~IsError(rs[k])}

NoSummary == [total_stocks |-> -1, successful_tests |-> -1, failed_tests |-> -1]

MainInit ==
    /\ main_pc = "loaded"
    /\ main_strategy \in BatchStrategies
    /\ \E m \in 0..MaxStocks :
         \E d \in [1..m -> BatchInputs] :
            stock_data = [k \in 1..m |-> [symbol |-> SymbolList[k], data |-> d[k]]]
    /\ main_i = 1
    /\ results = <<>>
    /\ summary_stats = NoSummary

\* lines 72-83: no data ends main; otherwise the loop starts
MainLoaded ==
    /\ main_pc = "loaded"
    /\ main_pc' = IF stock_data = <<>> THEN "returned" ELSE "loop"
    /\ UNCHANGED <<main_strategy, stock_data, main_i, results, summary_stats>>
    /\ UNCHANGED <<simVars, genVars, loopVars, cmpVars>>

\* lines 92-107: one instrument; an exception that leaves run ends the loop
\* in main's own handler (line 178)
MainIterate ==
    /\ main_pc = "loop"
    /\ main_i <= Len(stock_data)
    /\ \E ret \in ReturnSet :
         LET it == stock_data[main_i]
             o  == Run(main_strategy, it.symbol, it.data, ret)
         IN  IF o.kind = "raise"
             THEN /\ main_pc' = "aborted"
                  /\ UNCHANGED <<main_i, results>>
             ELSE /\ main_pc' = "loop"
                  /\ results' = AppendResult(results, o.value)
                  /\ main_i' = main_i + 1
    /\ UNCHANGED <<main_strategy, stock_data, summary_stats>>
    /\ UNCHANGED <<simVars, genVars, loopVars, cmpVars>>

\* lines 109-118: the loop is over, the summary is computed
MainSummary ==
    /\ main_pc = "loop"
    /\ main_i > Len(stock_data)
    /\ summary_stats' =
         [total_stocks     |-> Len(results),
          successful_tests |-> Cardinality(Successful(results)),
          failed_tests     |-> Len(results) - Cardinality(Successful(results))]
    /\ main_pc' = "done"
    /\ UNCHANGED <<main_strategy, stock_data, main_i, results>>
    /\ UNCHANGED <<simVars, genVars, loopVars, cmpVars>>

MainNext == MainLoaded \/ MainIterate \/ MainSummary

----------------------------------------------------------------------------
\* The row loops of the Price-Action strategies, one row at a time

\* Closes that put the rows at and around the thresholds of each loop:
\* 10% steps down and 20% up for PriceActionStrategy; drops of exactly and of
\* more than 5%, and 117 = 1.3 * 90, for the old PriceActionStrategy; drops of
\* 1% and 6% and a rise of more than 100% for PercentageChangeStrategy
LoopPrices(name) ==
    IF name = "price_action" THEN {72, 80, 81, 90, 100, 108, 120}
    ELSE IF name = "old_price_action" THEN {57, 60, 64, 80, 90, 95, 100, 117}
    ELSE {40, 94, 99, 100, 120}

\* The first rows of a series that falls by at least 5% on every row: the
\* old PriceActionStrategy has bought on each of them
ChainPrefix == <<100, 95, 90, 85, 80, 76, 72, 68>>

\* Where a loop is followed from: its entry, and for the old
\* PriceActionStrategy also the end of ChainPrefix, within MaxRows rows of
\* max_position
LoopStart(name, rows, price, l) ==
    \/ rows = 0 /\ price = 0 /\ l = EntryLocals
    \/ /\ name = "old_price_action"
       /\ rows = Len(ChainPrefix)
       /\ price = ChainPrefix[Len(ChainPrefix)]
       /\ l = RowLoop(name, EntryLocals, ChainPrefix, 1, <<>>).frame

LoopInit ==
    /\ loop_name \in {"price_action", "old_price_action", "percentage_change"}
    /\ loop_i \in {0, Len(ChainPrefix)}
    /\ loop_price \in {0, ChainPrefix[Len(ChainPrefix)]}
    /\ loop_l \in {EntryLocals,
                   RowLoop("old_price_action", EntryLocals, ChainPrefix, 1, <<>>).frame}
    /\ LoopStart(loop_name, loop_i, loop_price, loop_l)
    /\ loop_signal = IF loop_i = 0 THEN 0 ELSE 1
    /\ loop_exc = ""

\* one iteration of `for i in range(len(data))`: the row's Close is an input
LoopRow ==
    /\ loop_exc = ""
    /\ \/ loop_i < MaxRows
       \/ loop_i >= Len(ChainPrefix) /\ loop_i < Len(ChainPrefix) + MaxRows
    /\ \E price \in LoopPrices(loop_name) :
         LET close == IF loop_i = 0 THEN <<price>> ELSE <<loop_price, price>>
             r     == RowOf(loop_name, loop_l, close, Len(close))
         IN  /\ loop_price' = price
             /\ loop_l' = r.l
             /\ loop_signal' = r.signal
             /\ loop_exc' = r.exc
    /\ loop_i' = loop_i + 1
    /\ UNCHANGED <<loop_name, simVars, genVars, mainVars, cmpVars>>

LoopNext == LoopRow

----------------------------------------------------------------------------
\* The strategy comparison (old code/compare_strategies.py), for one strategy

TradeCounts == {0, 1, 3}

\* old code/backtester.py lines 64-75: the record of a successful run, with
\* the simulation's number of trades under 'trades'
OldSuccessRecord(symbol, ret, trades) ==
    [SuccessRecord(symbol, ret) EXCEPT !.trades = trades]

\* what engine.run() can return for an instrument (lines 64-82)
OldRunRecords(symbol) ==
    {OldSuccessRecord(symbol, ret, t) : ret \in ReturnSet, t \in TradeCounts}
    \cup {ErrorRecord(symbol, "ValueError")}

\* dict.get(key, default)
Get(r, key, default) == IF key \in DOMAIN r THEN r[key] ELSE default

\* line 63: [r for r in strategy_results if 'error' not in r]
successful_results(rs) == SelectSeq(rs, LAMBDA r : ~IsError(r))

\* sum(...) over a list of numbers
Total(xs) == SumSeq(xs, 1, Len(xs))

\* lines 66-72
ZeroMetrics ==
    [average_return |-> Zero, win_rate |-> Zero, total_trades |-> 0,
     max_drawdown |-> Zero, sharpe_ratio |-> Zero]

\* lines 63-81: the metrics of one strategy
calculate_strategy_metrics(rs) ==
    LET ok == successful_results(rs)
        n  == Len(ok)
        ret    == [k \in 1..n |-> ok[k].return]
        won    == [k \in 1..n |-> IF ok[k].return > 0 THEN 1 ELSE 0]
        trades == [k \in 1..n |-> Get(ok[k], "total_trades", 0)]
        dd     == [k \in 1..n |-> ok[k].max_drawdown]
        sharpe == [k \in 1..n |-> ok[k].sharpe]
    IN  IF n = 0
        THEN ZeroMetrics
        ELSE [average_return |-> Rat(Total(ret), n),
              win_rate       |-> Rat(Total(won), n),
              total_trades   |-> Total(trades),
              max_drawdown   |-> Rat(Total(dd), n),
              sharpe_ratio   |-> Rat(Total(sharpe), n)]

NoMetrics ==
    [average_return |-> NaN, win_rate |-> NaN, total_trades |-> -1,
     max_drawdown |-> NaN, sharpe_ratio |-> NaN]

CompareInit ==
    /\ cmp_pc = "run"
    /\ strategy_results = <<>>
    /\ metrics = NoMetrics

\* run_comparison lines 46-49: one instrument's record is appended
CompareRun ==
    /\ cmp_pc = "run"
    /\ Len(strategy_results) < MaxStocks
    /\ \E r \in OldRunRecords(SymbolList[Len(strategy_results) + 1]) :
         strategy_results' = Append(strategy_results, r)
    /\ UNCHANGED <<cmp_pc, metrics>>
    /\ UNCHANGED <<simVars, genVars, mainVars, loopVars>>

\* calculate_strategy_metrics on the records gathered
CompareMetrics ==
    /\ cmp_pc = "run"
    /\ metrics' = calculate_strategy_metrics(strategy_results)
    /\ cmp_pc' = "done"
    /\ UNCHANGED strategy_results
    /\ UNCHANGED <<simVars, genVars, mainVars, loopVars>>

CompareNext == CompareRun \/ CompareMetrics

----------------------------------------------------------------------------
\* The specifications: each part of the program on its own, the others at rest

CompareIdle ==
    /\ cmp_pc = "idle"
    /\ strategy_results = <<>>
    /\ metrics = NoMetrics

SimIdle ==
    /\ sim_pc = "idle"
    /\ sim_cfg = [cash |-> 0, commission |-> 0, nbars |-> 0]
    /\ bar = 0
    /\ bar_open = 0
    /\ closes = <<>>
    /\ broker = [cash |-> 0, units |-> 0, entry |-> 0]
    /\ orders = <<>>
    /\ signal_index = 0
    /\ current_signal = 0
    /\ acted = FALSE
    /\ units_before = 0
    /\ issued = <<>>
    /\ last_fill = NoFill
    /\ rejected = FALSE

GenIdle ==
    /\ gen_strategy = [name |-> "buy_hold", params |-> StrategyParams]
    /\ gen_data = [cols |-> "all", Close |-> <<>>]
    /\ gen_out = NoResult
    /\ gen_k = 0
    /\ gen_trunc = NoResult
    /\ gen_again = NoResult
    /\ gen_between = FALSE
    /\ frame = [position |-> 0, avg |-> Zero, last |-> Zero]

MainIdle ==
    /\ main_pc = "idle"
    /\ main_strategy = [name |-> "price_action", params |-> StrategyParams]
    /\ stock_data = <<>>
    /\ main_i = 1
    /\ results = <<>>
    /\ summary_stats = NoSummary

LoopIdle ==
    /\ loop_name = "idle"
    /\ loop_i = 0
    /\ loop_price = 0
    /\ loop_l = EntryLocals
    /\ loop_signal = 0
    /\ loop_exc = ""

InitSim == SimInit /\ GenIdle /\ MainIdle /\ LoopIdle /\ CompareIdle

InitGen == GenInit /\ SimIdle /\ MainIdle /\ LoopIdle /\ CompareIdle

InitMain == MainInit /\ SimIdle /\ GenIdle /\ LoopIdle /\ CompareIdle

InitLoop == LoopInit /\ SimIdle /\ GenIdle /\ MainIdle /\ CompareIdle

InitCompare == CompareInit /\ SimIdle /\ GenIdle /\ MainIdle /\ LoopIdle

SpecSim == InitSim /\ [][SimNext]_vars

SpecGen == InitGen /\ [][GenNext]_vars

SpecMain == InitMain /\ [][MainNext]_vars

SpecLoop == InitLoop /\ [][LoopNext]_vars

SpecCompare == InitCompare /\ [][CompareNext]_vars

----------------------------------------------------------------------------
\* Claims about the batch (checked under SpecMain)

\* C1: an error raised while generating signals or simulating inside
\* BacktestEngine.run never leaves run: the instrument gets an error record
\* holding exactly its symbol and the failure reason, and the instruments
\* after it are still processed.
C1_ErrorsBecomeRecords ==
    /\ main_pc # "aborted"
    /\ \A k \in DOMAIN results :
          LET exc == PipelineException(main_strategy, stock_data[k].data)
          IN  exc # "none" =>
                 /\ DOMAIN results[k] = {"symbol", "error"}
                 /\ results[k].symbol = stock_data[k].symbol
                 /\ results[k].error = ErrorText(exc)
    /\ main_pc = "done" => Len(results) = Len(stock_data)

C1_Witness ==
    /\ main_pc = "done"
    /\ main_strategy.name = "buy_hold"
    /\ Len(results) >= 3
    /\ IsError(results[1]) /\ ~IsError(results[2]) /\ IsError(results[3])
    /\ results[1].error # results[3].error

\* C2: when the batch loop has finished, results holds exactly one record
\* for each loaded instrument, no symbol missing and none twice, and
\* successful_tests + failed_tests is the number of loaded instruments.
C2_OneRecordPerInstrument ==
    main_pc = "done" =>
        /\ Len(results) = Len(stock_data)
        /\ \A k \in DOMAIN stock_data :
              Cardinality({j \in DOMAIN results :
                              results[j].symbol = stock_data[k].symbol}) = 1
        /\ summary_stats.successful_tests + summary_stats.failed_tests
              = Len(stock_data)
        /\ summary_stats.failed_tests
              = Cardinality({j \in DOMAIN results : IsError(results[j])})

C2_Witness ==
    /\ main_pc = "done"
    /\ summary_stats.successful_tests >= 1
    /\ summary_stats.failed_tests >= 2

----------------------------------------------------------------------------
\* Claims about the Execution Simulator (checked under SpecSim)

\* C3: CustomStrategy.next issues at most one order per processed bar: it
\* never both closes a position and opens a new one in the same bar, and on
\* a sell signal (-1) while Holding the one order it issues is the close.
C3_AtMostOneOrderPerBar ==
    /\ Len(issued) <= 1
    /\ Len(orders) <= 1
    /\ (acted /\ current_signal = -1 /\ units_before # 0) =>
           (Len(issued) = 1 /\ issued[1].kind = "close")

C3_Witness ==
    /\ acted /\ current_signal = -1 /\ units_before > 0
    /\ Len(issued) = 1 /\ issued[1].kind = "close"

\* C4 (as claimed): whenever the simulator is Holding and the bar's signal is
\* a sell value -k, k >= 1, the order placed on that bar sells
\* min(k, units_owned) units.
C4_SellsMinKUnits ==
    (acted /\ units_before > 0 /\ current_signal < 0) =>
        /\ Len(issued) = 1
        /\ issued[1].kind = "close"
        /\ issued[1].size = -Min(-current_signal, units_before)

\* C5: units owned never go below zero, and a sell signal received while
\* Flat places no order.
C5_NoShortPosition ==
    /\ broker.units >= 0
    /\ (acted /\ current_signal < 0 /\ units_before = 0) => issued = <<>>
    /\ \A k \in DOMAIN orders : orders[k].kind # "sell"

C5_Witness ==
    /\ acted /\ current_signal < 0 /\ units_before = 0
    /\ last_fill.size < 0

\* C6: the cash balance is never negative after a fill: a buy is clipped to
\* what the cash affords, commission included, or dropped.
C6_CashNonNegative ==
    /\ broker.cash >= 0
    /\ CashBalance(broker) >= 0
    /\ rejected => (broker.units = 0 /\ last_fill.bar # bar)

C6_Witness ==
    /\ sim_cfg.commission > 0
    /\ broker.units > 0
    /\ last_fill.size > 0
    /\ CashBalance(broker) < last_fill.price * (1000 + sim_cfg.commission)
    /\ CashBalance(broker) > 0

\* C7 (as claimed): the signal at position i is acted on while bar i is
\* processed, and the order it triggers is filled at bar i's close.
C7_SignalActedAtItsBar ==
    /\ acted => signal_index - 1 = bar
    /\ (last_fill # NoFill /\ last_fill.sig >= 0) =>
           /\ last_fill.bar = last_fill.sig
           /\ last_fill.price = closes[last_fill.sig + 1]

----------------------------------------------------------------------------
\* Claims about the Signal Generators (checked under SpecGen)

\* C8: on every non-empty valid Bar Series the Buy-and-Hold generator returns
\* a signal sequence of the series' length with +1 at position 0 and 0 at
\* every later position.
C8_BuyAndHoldSignals ==
    (/\ gen_strategy.name = "buy_hold"
     /\ gen_out # NoResult
     /\ validate_data(gen_data)
     /\ Len(gen_data.Close) > 0) =>
        /\ gen_out.kind = "signals"
        /\ Len(gen_out.Signal) = Len(gen_data.Close)
        /\ gen_out.Signal[1] = 1
        /\ \A i \in 2..Len(gen_out.Signal) : gen_out.Signal[i] = 0

C8_Witness ==
    /\ gen_strategy.name = "buy_hold"
    /\ gen_out.kind = "signals"
    /\ Len(gen_data.Close) >= 3

\* C9: a later call of generate_signals on the same strategy instance with
\* the same Bar Series returns what the first call returned, also when other
\* series were processed in between.
C9_SameInstanceSameSignals ==
    gen_again # NoResult => gen_again = gen_out

C9_Witness ==
    /\ gen_strategy.name = "price_action"
    /\ gen_again.kind = "signals"
    /\ gen_between
    /\ gen_trunc # NoResult
    /\ \E i \in DOMAIN gen_again.Signal : gen_again.Signal[i] = -1

\* C10: for every strategy and every k from 1 to the series' length, the
\* signals generated from the first k bars equal the first k signals
\* generated from the whole series.
C10_NoLookahead ==
    (gen_trunc.kind = "signals" /\ gen_out.kind = "signals") =>
        gen_trunc.Signal = SubSeq(gen_out.Signal, 1, gen_k)

C10_Witness ==
    /\ gen_strategy.name = "moving_average"
    /\ gen_trunc.kind = "signals"
    /\ gen_out.kind = "signals"
    /\ gen_k < Len(gen_data.Close)
    /\ gen_out.Signal[gen_k] # 0
    /\ gen_out.Signal[gen_k + 1] # gen_out.Signal[gen_k]

----------------------------------------------------------------------------
\* Claims about the Moving-Average strategy (checked under SpecGen)

\* C11: the Moving-Average strategy has +1 at bar i exactly when the fast
\* average was defined and <= the slow one at bar i-1, is > it at bar i, the
\* RSI at i is below the oversold level, and the sell condition does not hold
\* at i; with thresholds that never constrain, the first bar where the fast
\* average crosses above the slow one has +1 and no earlier bar has.
C11_BuyAtCrossover ==
    (gen_strategy.name = "moving_average" /\ gen_out.kind = "signals") =>
        LET close == gen_data.Close
            prm   == gen_strategy.params
            fast  == SMA(close, prm.MA_FAST)
            slow  == SMA(close, prm.MA_SLOW)
            rsi   == RSI(close, prm.RSI_PERIOD)
            def(i) == i >= 1 /\ fast[i].d > 0 /\ slow[i].d > 0
            above(i) == def(i) /\ fast[i].n * slow[i].d > slow[i].n * fast[i].d
            below(i) == def(i) /\ fast[i].n * slow[i].d < slow[i].n * fast[i].d
            crossUp(i)   == i > 1 /\ def(i - 1) /\ ~above(i - 1) /\ above(i)
            crossDown(i) == i > 1 /\ def(i - 1) /\ ~below(i - 1) /\ below(i)
            low(i)  == rsi[i].d > 0 /\ rsi[i].n < prm.RSI_OVERSOLD * rsi[i].d
            high(i) == rsi[i].d > 0 /\ rsi[i].n > prm.RSI_OVERBOUGHT * rsi[i].d
            sell(i) == crossDown(i) \/ high(i)
            crossings == {i \in DOMAIN close : crossUp(i)}
        IN  /\ \A i \in DOMAIN close :
                 gen_out.Signal[i] = 1 <=> (crossUp(i) /\ low(i) /\ ~sell(i))
            /\ (prm = StrategyParamsNoFilter /\ crossings # {}) =>
                 \E j \in crossings :
                    /\ \A i \in crossings : j <= i
                    /\ gen_out.Signal[j] = 1
                    /\ \A i \in 1..(j - 1) : gen_out.Signal[i] # 1

\* a filtered buy: the crossover of <<120, 80, 100, 80>> at its last bar, RSI 20
C11_Witness ==
    /\ gen_strategy.name = "moving_average"
    /\ gen_strategy.params = StrategyParams
    /\ gen_out.kind = "signals"
    /\ Len(gen_out.Signal) = 4
    /\ gen_out.Signal[4] = 1

\* C12: in the Moving-Average strategy every bar at which the fast average,
\* the slow average or the RSI is still undefined has signal 0.
C12_NoSignalInWarmup ==
    (gen_strategy.name = "moving_average" /\ gen_out.kind = "signals") =>
        LET close == gen_data.Close
            prm   == gen_strategy.params
            fast  == SMA(close, prm.MA_FAST)
            slow  == SMA(close, prm.MA_SLOW)
            rsi   == RSI(close, prm.RSI_PERIOD)
        IN  \A i \in DOMAIN close :
               (IsNaN(fast[i]) \/ IsNaN(slow[i]) \/ IsNaN(rsi[i]))
                   => gen_out.Signal[i] = 0

----------------------------------------------------------------------------
\* Claims about the row loops (checked under SpecLoop)

\* C13: in PercentageChangeStrategy, on every row after the first, a buy is
\* written exactly when the drop of the close from the previous close is at
\* least the threshold (min_price_change, 1%), a drop of exactly the
\* threshold included.
C13_BuyAtDropThreshold ==
    [][(loop_name = "percentage_change" /\ loop_i >= 1) =>
          (loop_signal' = 1 <=> 100 * (loop_price - loop_price') >= loop_price)]_vars

\* C14: in PercentageChangeStrategy a buy of n shares at price p, with s
\* shares held at average a, leaves the average at (s*a + n*p) / (s + n),
\* which is p when s = 0; a sell and a row without action leave the average
\* as it was.
C14_RunningAverage ==
    [][loop_name = "percentage_change" =>
          LET s == loop_l.position
              a == loop_l.avg
              n == loop_l'.position - s
              p == loop_price'
              b == loop_l'.avg
          IN  /\ loop_signal' = 1 =>
                    /\ n > 0
                    /\ b.d > 0
                    /\ b.n * a.d * (s + n) = (s * a.n + n * p * a.d) * b.d
                    /\ s = 0 => b = [n |-> p, d |-> 1]
              /\ loop_signal' # 1 => b = a]_vars

\* closes <<100, 94, 94>>: 6 shares bought at 94, then no action
C14_Witness ==
    /\ loop_name = "percentage_change"
    /\ loop_i = 3
    /\ loop_price = 94
    /\ loop_signal = 0
    /\ loop_l.position = 6
    /\ loop_l.avg = [n |-> 94, d |-> 1]

\* C15: in PercentageChangeStrategy a sell is written only when shares are
\* held and the close is above the running average buy price, it sells at
\* least one share and no more than are held, and shares_owned is never
\* negative.
C15_SellOnlyInProfit ==
    [][loop_name = "percentage_change" =>
          LET s    == loop_l.position
              sold == s - loop_l'.position
          IN  /\ loop_signal' = -1 =>
                    /\ s > 0
                    /\ loop_price' * loop_l.avg.d > loop_l.avg.n
                    /\ sold >= 1
                    /\ sold <= s
              /\ loop_l'.position >= 0]_vars

\* a rise of more than 100% sells every share held
C15_Witness ==
    /\ loop_name = "percentage_change"
    /\ loop_signal = -1
    /\ loop_price = 94
    /\ loop_l.position = 0
    /\ loop_l.avg.n > 0

\* C16 as stated: in the old PriceActionStrategy, on every row where n >= 1
\* units are held and the close is at least 5% below the last buy price, +1
\* is written, the position becomes n + 1, the last buy price the close and
\* the average (avg*n + close) / (n + 1), however many units are held.
C16_AddOnBuyAnyPosition ==
    [][(/\ loop_name = "old_price_action"
        /\ loop_l.position >= 1
        /\ 20 * (loop_l.last.n - loop_price' * loop_l.last.d) >= loop_l.last.n) =>
          /\ loop_signal' = 1
          /\ loop_l'.position = loop_l.position + 1]_vars

\* C16 amended: the same while fewer than max_position units are held; with
\* max_position units held no buy is written and the locals of the buy are
\* left alone. PriceActionStrategy (step 10%, no limit) buys for every n.
\* The drop is the one from the last buy price: a smaller one adds no unit.
C16_AddOnBuyBelowMax ==
    [][LET n  == loop_l.position
           a  == loop_l.avg
           p  == loop_price'
           b  == loop_l'.avg
           bought == /\ loop_signal' = 1
                     /\ loop_l'.position = n + 1
                     /\ loop_l'.last = [n |-> p, d |-> 1]
                     /\ b.d > 0
                     /\ b.n * a.d * (n + 1) = (a.n * n + p * a.d) * b.d
       IN  /\ (/\ loop_name = "old_price_action"
               /\ n >= 1
               /\ 20 * (loop_l.last.n - p * loop_l.last.d) >= loop_l.last.n) =>
                 IF n < max_position
                 THEN bought
                 ELSE /\ loop_signal' # 1
                      /\ loop_l'.position <= n
                      /\ loop_l'.last = loop_l.last
           /\ (/\ loop_name = "price_action"
               /\ n >= 1
               /\ 10 * p * loop_l.last.d <= 9 * loop_l.last.n) => bought
           /\ (/\ loop_name = "old_price_action"
               /\ n >= 1
               /\ 20 * (loop_l.last.n - p * loop_l.last.d) < loop_l.last.n) =>
                 loop_signal' # 1]_vars

\* the tenth unit is bought at 60, 6.25% below the ninth buy at 64
C16_Witness ==
    /\ loop_name = "old_price_action"
    /\ loop_signal = 1
    /\ loop_l.position = max_position
    /\ loop_price = 60

\* C17: in the old PriceActionStrategy, on a row where no add-on buy applies
\* and the profit of the close over the average buy price is at least the
\* take-profit threshold (10%), the signal is -u with
\* u = min(position, floor(profit / threshold)), the position goes down by
\* exactly u and does not become negative.
C17_SellsProfitMultiples ==
    [][LET n == loop_l.position
           a == loop_l.avg
           l == loop_l.last
           p == loop_price'
           gain == p * a.d - a.n
           addOn == n < max_position /\ 20 * (l.n - p * l.d) >= l.n
           u == Min(n, (10 * gain) \div a.n)
       IN  (/\ loop_name = "old_price_action"
            /\ n >= 1
            /\ ~addOn
            /\ 10 * gain >= a.n) =>
              /\ loop_signal' = -u
              /\ loop_l'.position = n - u
              /\ loop_l'.position >= 0]_vars

\* C18: in both PriceActionStrategy variants, for positive closes, after
\* every row the average and the last buy price are both zero exactly when
\* the position is zero; a sell that leaves units leaves both prices as they
\* were, and the sell that closes the position resets them.
C18_PricesZeroIffFlat ==
    [][(loop_name \in {"price_action", "old_price_action"}) =>
          /\ (loop_l'.avg = Zero /\ loop_l'.last = Zero) <=> loop_l'.position = 0
          /\ (loop_l'.avg = Zero \/ loop_l'.last = Zero) => loop_l'.position = 0
          /\ (loop_signal' < 0 /\ loop_l'.position > 0) =>
                (loop_l'.avg = loop_l.avg /\ loop_l'.last = loop_l.last)
          /\ loop_signal' < 0 => (loop_l'.position < loop_l.position)]_vars

\* a partial sell: units are left, at the average and last buy price of before
C18_Witness ==
    /\ loop_name = "old_price_action"
    /\ loop_signal < 0
    /\ loop_l.position >= 2
    /\ loop_l.avg.n > loop_l.last.n * loop_l.avg.d

----------------------------------------------------------------------------
\* Claims about invalid and degenerate input

\* C19: for every strategy, generate_signals on a Bar Series that lacks a
\* required OHLCV column, or that is empty, fails with an error: it returns
\* neither the input unchanged nor a (possibly empty) signal sequence.
C19_InvalidInputRaises ==
    (gen_out # NoResult /\ (gen_data.cols # "all" \/ Len(gen_data.Close) = 0)) =>
        gen_out.kind = "raise"

\* C20: an instrument whose signal generation divides by a Close of zero (a
\* zero previous close in PercentageChangeStrategy, a zero last buy price in
\* the old PriceActionStrategy) gets an error record, not a success record.
C20_DegenerateRunAborts ==
    \A k \in DOMAIN results :
        LET data == stock_data[k].data
        IN  (/\ main_strategy.name \in {"percentage_change", "old_price_action"}
             /\ data.cols = "all"
             /\ \E i \in 2..Len(data.Close) : data.Close[i - 1] = 0) =>
               IsError(results[k])

----------------------------------------------------------------------------
\* Claims about re-entry, the simulated position and the comparison

\* C21: in both PriceActionStrategy variants, on every row that starts with
\* position 0 (row 0 and every row after a sell that closed the position)
\* the signal is +1 whatever the close, and the position, the average and
\* the last buy price become 1, the close and the close.
C21_BuysFromZero ==
    [][(loop_name \in {"price_action", "old_price_action"} /\ loop_l.position = 0) =>
          /\ loop_signal' = 1
          /\ loop_exc' = ""
          /\ loop_l'.position = 1
          /\ loop_l'.avg = [n |-> loop_price', d |-> 1]
          /\ loop_l'.last = [n |-> loop_price', d |-> 1]]_vars

\* the buy of the row after a sell that closed the position, at a close
\* above the one of row 0
C21_Witness ==
    /\ loop_name \in {"price_action", "old_price_action"}
    /\ loop_i = 3
    /\ loop_signal = 1
    /\ loop_l.position = 1
    /\ loop_l.avg = [n |-> 120, d |-> 1] \/ loop_l.avg = [n |-> 117, d |-> 1]

\* C22: CustomStrategy.next issues a buy order only while Flat: a buy signal
\* read while Holding issues no order and leaves the units held as they are,
\* and the units held never go up while Holding, so the add-on buys of the
\* averaging-in strategies do not add to the simulated position.
C22_BuyOnlyFromFlat ==
    [][/\ (acted' /\ current_signal' = 1 /\ units_before' > 0) =>
              /\ issued' = <<>>
              /\ orders' = <<>>
              /\ broker'.units = units_before'
       /\ \A k \in DOMAIN issued' : issued'[k].kind = "buy" => units_before' = 0
       /\ broker.units > 0 => broker'.units <= broker.units]_vars

\* a buy signal read while units are held
C22_Witness ==
    /\ acted /\ current_signal = 1 /\ units_before > 0
    /\ issued = <<>>
    /\ broker.units = units_before

\* C23: in both PriceActionStrategy variants, for positive closes, whenever
\* units are held the last buy price is at most the average buy price, after
\* any buys and partial sells; so on no row are the add-on buy condition
\* (close at least the step below the last buy price) and the take-profit
\* condition (close at least the threshold above the average) both true.
C23_LastAtMostAverage ==
    [][LET Held(l) == l.position > 0 => l.last.n * l.avg.d <= l.avg.n * l.last.d
           l == loop_l
           p == loop_price'
           fall == IF loop_name = "old_price_action"
                   THEN 20 * (l.last.n - p * l.last.d) >= l.last.n
                   ELSE 10 * p * l.last.d <= 9 * l.last.n
           gain == IF loop_name = "old_price_action"
                   THEN 10 * (p * l.avg.d - l.avg.n) >= l.avg.n
                   ELSE 10 * p * l.avg.d >= 12 * l.avg.n
       IN  (loop_name \in {"price_action", "old_price_action"}) =>
              /\ Held(loop_l)
              /\ Held(loop_l')
              /\ l.position > 0 => ~(fall /\ gain)]_vars

\* closes <<100, 95, 90, 117, 80>>: three buys, a sell of two units, and a
\* buy at 80 that leaves the average at 87.5
C23_Witness ==
    /\ loop_name = "old_price_action"
    /\ loop_i = 5
    /\ loop_signal = 1
    /\ loop_l.position = 2
    /\ loop_l.last = [n |-> 80, d |-> 1]
    /\ 2 * loop_l.avg.n = 175 * loop_l.avg.d

\* C24: a call of CustomStrategy.next that reads the signal 0 issues no order
\* and leaves the units held as they are; every call of next, whatever the
\* signal, advances signal_index by exactly one and nothing else does, so
\* the signals are read in order, none skipped or read twice, and
\* signal_index never exceeds the length of the signal sequence.
C24_HoldAdvancesIndexOnly ==
    [][/\ acted' => signal_index' = signal_index + 1
       /\ ~acted' => signal_index' = signal_index
       /\ signal_index' <= sim_cfg.nbars
       /\ (acted' /\ current_signal' = 0) =>
              /\ issued' = <<>>
              /\ orders' = <<>>
              /\ broker'.units = units_before'
       /\ (acted /\ current_signal = 0 /\ sim_pc' = "run") =>
              broker'.units = broker.units]_vars

\* a hold signal read while units are held, after earlier signals
C24_Witness ==
    /\ acted /\ current_signal = 0 /\ units_before > 0
    /\ issued = <<>>
    /\ signal_index >= 3

\* C25: in the Moving-Average strategy no two consecutive bars both have the
\* buy signal: if bar i has +1 then bar i+1 has not, for every close series,
\* a flat or rising stretch after a crossover included.
C25_NoConsecutiveBuys ==
    (gen_strategy.name = "moving_average" /\ gen_out.kind = "signals") =>
        \A i \in 1..(Len(gen_out.Signal) - 1) :
            gen_out.Signal[i] = 1 => gen_out.Signal[i + 1] # 1

\* a buy at the crossover, followed by a bar whose close is no lower and
\* whose fast average is still above the slow one
C25_Witness ==
    /\ gen_strategy.name = "moving_average"
    /\ gen_out.kind = "signals"
    /\ Len(gen_data.Close) = 5
    /\ gen_out.Signal[4] = 1
    /\ gen_data.Close[5] >= gen_data.Close[4]
    /\ RatLT(SMA(gen_data.Close, gen_strategy.params.MA_SLOW)[5],
             SMA(gen_data.Close, gen_strategy.params.MA_FAST)[5])
    /\ gen_out.Signal[5] = 0

\* C26: the total_trades metric of a strategy is the sum of the trade counts
\* of its successful records, as BacktestEngine.run returns them under
\* 'trades'; a strategy without a successful record gets every metric 0.
C26_TotalTradesIsSum ==
    cmp_pc = "done" =>
        LET ok == successful_results(strategy_results)
        IN  /\ metrics.total_trades = Total([k \in 1..Len(ok) |-> ok[k].trades])
            /\ Len(ok) = 0 => metrics = ZeroMetrics

====
